---------------------------- MODULE Spec2Model ----------------------------
(***************************************************************************)
(* Model of app.py, the Streamlit "Article Recommender" script.            *)
(*                                                                         *)
(* One script run is the unit of execution: Streamlit executes the file    *)
(* top to bottom at session start and again on every widget interaction.   *)
(* The only state that survives a run is the st.cache_data memo of         *)
(* load_data_from_blob.                                                    *)
(*                                                                         *)
(* Python values are tagged pairs <<kind, value>>:                         *)
(*   <<"None", 0>>, <<"int", n>>, <<"float", n>> (the float n.0),          *)
(*   <<"str", s>>, <<"nan", i>> (a float NaN object; i is its identity,    *)
(*   NaN objects are never equal to one another), <<"list", seq>>,         *)
(*   <<"dict", seq of keys>>.                                              *)
(***************************************************************************)
EXTENDS Integers, Sequences, FiniteSets, TLC

VARIABLES
    env,                    \* os.environ as read at lines 11-13
    cache,                  \* st.cache_data memo: parameter tuple -> returned value
    fetched,                \* parameter tuple -> blob content downloaded for it
    fetchCount,             \* parameter tuple -> number of downloads so far
    runs,                   \* script runs started in this process
    pc,                     \* position of the current script run
    pressed,                \* st.button("Get 5 Recommendations") value of this run
    user_interactions,      \* DataFrame of line 85-86
    articles_metadata,      \* DataFrame of line 89-90
    user_ids,               \* line 93 / 95 / 110
    articles_metadata_dict, \* line 98 / 100 / 111
    selected_user_id,       \* line 122
    response,               \* what the endpoint answered in this run
    recommendations,        \* line 127
    requests_sent,          \* requests.post calls issued in this run
    calls,                  \* get_recommendations calls made in this run
    reported,               \* st.error / st.warning / st.info messages of this run
    outcome                 \* how the button handler of this run ended

vars == <<env, cache, fetched, fetchCount, runs, pc, pressed, user_interactions,
          articles_metadata, user_ids, articles_metadata_dict, selected_user_id,
          response, recommendations, requests_sent, calls, reported, outcome>>

-----------------------------------------------------------------------------
(* Bounds of the model *)

MaxLines == 2

MaxRecs == 2

MaxRuns == 2

-----------------------------------------------------------------------------
(* Python values *)

PyNone == <<"None", 0>>

PyInt(n) == <<"int", n>>

PyFloat(n) == <<"float", n>>

PyStr(s) == <<"str", s>>

PyNaN(i) == <<"nan", i>>

PyList(s) == <<"list", s>>

PyDict(keys) == <<"dict", keys>>

Unbound == <<"unbound", 0>>

\* bool(v): the truth value Python gives v in `if v:`
Truthy(v) ==
    CASE v[1] = "None"  -> FALSE
      [] v[1] = "int"   -> v[2] # 0
      [] v[1] = "float" -> v[2] # 0
      [] v[1] = "nan"   -> TRUE
      [] v[1] = "str"   -> v[2] # ""
      [] v[1] = "list"  -> Len(v[2]) > 0
      [] v[1] = "dict"  -> Len(v[2]) > 0
      [] OTHER          -> FALSE

\* str(v) for the scalar values an identifier can take
Str(v) ==
    CASE v[1] = "int"   -> ToString(v[2])
      [] v[1] = "float" -> ToString(v[2]) \o ".0"
      [] v[1] = "nan"   -> "nan"
      [] v[1] = "str"   -> v[2]
      [] OTHER          -> "None"

-----------------------------------------------------------------------------
(* Blob storage and load_data_from_blob *)

\* The two parameter tuples the script passes (lines 84 and 88):
\* (connection_string, container_name, blob_name, is_pickle, is_json_lines)
ParamsKey(connection_string, container_name, blob_name, is_pickle, is_json_lines) ==
    <<connection_string, container_name, blob_name, is_pickle, is_json_lines>>

ConnectionString == "DefaultEndpointsProtocol=https"

InteractionsParams ==
    ParamsKey(ConnectionString, "userinfosjson", "user_interactions.json", FALSE, TRUE)

ArticlesParams ==
    ParamsKey(ConnectionString, "processed-data", "articles_metadata.json", FALSE, TRUE)

\* A text line of a blob: <<"json", d>> decodes to the dict d, <<"bad", 0>>
\* makes json.loads raise (malformed or empty line).
BadLine == <<"bad", 0>>

JsonLine(d) == <<"json", d>>

InteractionRecords ==
    {[user_id |-> PyInt(u), click_article_id |-> PyInt(1)] : u \in 0..1}
        \cup {[click_article_id |-> PyInt(1)]}

ArticleRecords ==
    {[article_id |-> PyInt(1), title |-> PyStr("A")],
     [article_id |-> PyStr("1"), title |-> PyStr("B")],
     [title |-> PyStr("C")]}

SeqsUpTo(S, n) == UNION {[1..k -> S] : k \in 0..n}

\* What a download can meet: the blob does not exist, the connection string
\* is rejected, another I/O error, or the blob's text as a sequence of lines.
SourceFailures == {<<"notfound", <<>>>>, <<"badcredential", <<>>>>, <<"ioerror", <<>>>>}

Blobs(records) ==
    SourceFailures
        \cup {<<"lines", ls>> : ls \in SeqsUpTo({JsonLine(d) : d \in records} \cup {BadLine}, MaxLines)}

\* Body of load_data_from_blob (lines 21-36) on the blob content met.
\* ret is the value returned, err whether the except branch reported.
load_data_from_blob(blob, is_pickle, is_json_lines) ==
    LET failed == [ret |-> PyNone, err |-> TRUE]
        lines  == blob[2]
    IN  IF blob[1] # "lines" THEN failed                    \* lines 22-24 raise
        ELSE IF is_pickle THEN failed                       \* line 26: pickle is not imported
        ELSE IF is_json_lines
            THEN IF \E i \in 1..Len(lines) : lines[i] = BadLine
                    THEN failed                             \* line 30 raises, caught at 34
                    ELSE [ret |-> PyList([i \in 1..Len(lines) |-> lines[i][2]]),
                          err |-> FALSE]
            ELSE IF Len(lines) = 1 /\ lines[1] # BadLine    \* line 33: one JSON document
                    THEN [ret |-> PyDict(<<"document">>), err |-> FALSE]
                    ELSE failed

\* A memo that never answers: every call runs the body again.
CacheHitNever(c, params) == FALSE

\* st.cache_data (line 16): is there a memoized value for these parameters?
CacheHit(c, params) == params \in DOMAIN c

-----------------------------------------------------------------------------
(* pandas: DataFrame construction, optimize_dataframe_memory, to_dict *)

NoFrame == [bound |-> FALSE, columns |-> {}, rows |-> <<>>]

\* dtype pandas infers for a column of cells
Dtype(cells) ==
    IF \A c \in cells : c[1] = "int" THEN "int64"
    ELSE IF \A c \in cells : c[1] \in {"int", "float", "nan"} THEN "float64"
    ELSE "object"

\* pd.DataFrame(data) followed by optimize_dataframe_memory (lines 38-47, 85-86):
\* columns are the union of the keys, a missing key is NaN, an int64 column
\* is cast to int32 and a float64 column (ints with NaN) to float32.  The
\* identifiers drawn lie far inside the int32 and float32 exact ranges, where
\* both casts keep the value.
DataFrame(data) ==
    IF data[1] # "list" THEN [bound |-> TRUE, columns |-> {}, rows |-> <<>>]
    ELSE
    LET recs  == data[2]
        cols  == UNION {DOMAIN recs[i] : i \in 1..Len(recs)}
        raw(i, c) == IF c \in DOMAIN recs[i] THEN recs[i][c] ELSE PyNaN(i)
        dt(c) == Dtype({raw(i, c) : i \in 1..Len(recs)})
        cell(i, c) ==
            CASE dt(c) = "int64"   -> raw(i, c)
              [] dt(c) = "float64" -> IF raw(i, c)[1] = "int"
                                        THEN PyFloat(raw(i, c)[2]) ELSE raw(i, c)
              [] OTHER             -> raw(i, c)
    IN  [bound |-> TRUE, columns |-> cols,
         rows |-> [i \in 1..Len(recs) |-> [c \in cols |-> cell(i, c)]]]


HasColumn(df, c) == c \in df.columns

\* df[c] as the sequence of its cells
Column(df, c) == [i \in 1..Len(df.rows) |-> df.rows[i][c]]

-----------------------------------------------------------------------------
(* User Directory (line 93) and Metadata Index (line 98) *)

Arrangements(S) ==
    {s \in [1..Cardinality(S) -> S] : \A x \in S : \E i \in 1..Cardinality(S) : s[i] = x}

\* a < b on numeric cells; every comparison with NaN is False
Less(a, b) == a[1] # "nan" /\ b[1] # "nan" /\ a[2] < b[2]

\* sorted(list(set(series))): the values are deduplicated by equality (NaN
\* objects are pairwise unequal and all stay) and sorted ascending.  With a
\* NaN in the set the comparisons no longer define an order and the result
\* depends on the set's iteration order (NaN hashes by address): any
\* arrangement can come out.
SortedSet(series) ==
    LET S == {series[i] : i \in 1..Len(series)}
    IN  IF \E x \in S : x[1] = "nan"
            THEN Arrangements(S)
            ELSE {s \in Arrangements(S) :
                    \A i \in 1..Len(s) : \A j \in 1..Len(s) : i < j => Less(s[i], s[j])}

\* {str(article['article_id']): article for article in df.to_dict('records')}
\* a later row replaces an earlier one stored under the same key.
IndexOf(rows) ==
    LET key(i) == Str(rows[i]["article_id"])
        keys   == {key(i) : i \in 1..Len(rows)}
        last(k) == CHOOSE i \in 1..Len(rows) :
                      key(i) = k /\ \A j \in 1..Len(rows) : j > i => key(j) # k
    IN  [k \in keys |-> rows[last(k)]]

EmptyDict == [k \in {} |-> <<>>]

-----------------------------------------------------------------------------
(* Recommendation client: get_recommendations (lines 49-74) *)

\* requests' exception classes, each with its base classes
ConnectionError == {"ConnectionError", "RequestException"}

ConnectTimeout == {"ConnectTimeout", "ConnectionError", "Timeout", "RequestException"}

ReadTimeout == {"ReadTimeout", "Timeout", "RequestException"}

HTTPError == {"HTTPError", "RequestException"}

TooManyRedirects == {"TooManyRedirects", "RequestException"}

\* response.json() raises requests.exceptions.JSONDecodeError (a
\* RequestException and a json.JSONDecodeError) in requests >= 2.27 and the
\* bare json.JSONDecodeError before: which one depends on the build.
JSONDecodeErrors ==
    {{"JSONDecodeError", "InvalidJSONError", "RequestException"}, {"JSONDecodeError"}}

NoBody == <<"none", 0>>

Undecodable == <<"undecodable", 0>>

RecIds == {PyStr("1"), PyInt(7)}

JsonBodies ==
    {<<"json", PyList(l)>> : l \in SeqsUpTo(RecIds, MaxRecs)}
        \cup {<<"json", PyDict(<<"error">>)>>, <<"json", PyDict(<<>>)>>, <<"json", PyNone>>}

\* What the endpoint (or the transport) does with one request
Responses ==
    {[exc |-> e, status |-> 0, body |-> NoBody, jsonexc |-> {}] :
        e \in {ConnectionError, ConnectTimeout, ReadTimeout, TooManyRedirects}}
    \cup {[exc |-> {}, status |-> s, body |-> NoBody, jsonexc |-> {}] : s \in {404, 500}}
    \cup {[exc |-> {}, status |-> s, body |-> b, jsonexc |-> {}] :
            s \in {200, 201}, b \in JsonBodies}
    \cup {[exc |-> {}, status |-> 200, body |-> Undecodable, jsonexc |-> j] :
            j \in JSONDecodeErrors}

NoResponse == [exc |-> {}, status |-> 0, body |-> NoBody, jsonexc |-> {}]

\* The failure kinds of the client
FailureKind(resp) ==
    CASE resp = NoResponse                                   -> "none"
      [] "Timeout" \in resp.exc                              -> "timeout"
      [] "ConnectionError" \in resp.exc                      -> "connection"
      [] resp.exc # {}                                       -> "request"
      [] resp.status >= 400                                  -> "http"
      [] resp.body = Undecodable                             -> "decode"
      [] OTHER                                               -> "none"

\* The except clause that catches an exception, in the order of lines 60-72
Handler(classes) ==
    IF "ConnectionError" \in classes THEN "Connection Error"
    ELSE IF "Timeout" \in classes THEN "Timeout Error"
    ELSE IF "HTTPError" \in classes THEN "HTTP Error"
    ELSE IF "RequestException" \in classes THEN "unexpected error during the request"
    ELSE IF "JSONDecodeError" \in classes THEN "Could not decode JSON"
    ELSE "uncaught"

\* headers (lines 51-54) and payload (line 55)
Headers(key) == ("Content-Type" :> PyStr("application/json")) @@ ("x-functions-key" :> key)

Payload(user_id, n_recommendations) ==
    [user_id |-> user_id, n_recommendations |-> n_recommendations]

\* A client that cuts the decoded list down to its first identifier.
response_json_truncated(body) ==
    IF body[2][1] = "list" /\ Len(body[2][2]) > 1
        THEN PyList(SubSeq(body[2][2], 1, 1))
        ELSE body[2]

\* response.json() (line 59) on a decodable body
response_json(body) == body[2]

\* get_recommendations(user_id, n_recommendations) with AZURE_FUNCTION_KEY = key,
\* when the endpoint answers resp: the request posted, the value returned
\* and the message reported with st.error.
get_recommendations(user_id, n_recommendations, key, resp) ==
    LET raised ==
            IF resp.exc # {} THEN resp.exc                              \* line 57
            ELSE IF resp.status >= 400 /\ resp.status < 600 THEN HTTPError \* line 58
            ELSE IF resp.body = Undecodable THEN resp.jsonexc           \* line 59
            ELSE {}
    IN  [request |-> [headers |-> Headers(key),
                      json |-> Payload(user_id, n_recommendations)],
         ret |-> IF raised = {} THEN response_json(resp.body) ELSE PyNone,
         msg |-> IF raised = {} THEN <<>>
                 ELSE <<[level |-> "error", text |-> Handler(raised),
                         status |-> IF Handler(raised) = "HTTP Error"
                                       THEN resp.status ELSE 0]>>]

\* The cards of lines 137-148: one per identifier, looked up by str(id)
Cards(recs, index) ==
    [i \in 1..Len(recs) |->
        [article_id |-> recs[i], found |-> Str(recs[i]) \in DOMAIN index]]

-----------------------------------------------------------------------------
(* The script *)

Message(level, text, status) == [level |-> level, text |-> text, status |-> status]

NoOutcome == [kind |-> "none", cards |-> <<>>]

Init ==
    /\ env \in [key : {PyNone, PyStr("function-key")},
                conn : {PyNone, PyStr(ConnectionString)}]
    /\ cache = EmptyDict
    /\ fetched = EmptyDict
    /\ fetchCount = [p \in {InteractionsParams, ArticlesParams} |-> 0]
    /\ runs = 0
    /\ pc = "idle"
    /\ pressed = FALSE
    /\ user_interactions = NoFrame
    /\ articles_metadata = NoFrame
    /\ user_ids = <<>>
    /\ articles_metadata_dict = EmptyDict
    /\ selected_user_id = Unbound
    /\ response = NoResponse
    /\ recommendations = Unbound
    /\ requests_sent = <<>>
    /\ calls = 0
    /\ reported = <<>>
    /\ outcome = NoOutcome

\* Streamlit starts a script run: at session start or page reload (button
\* False), or because the button rendered by the previous run was pressed.
StartRun(button) ==
    /\ pc \in {"idle", "done", "stopped", "crashed"}
    /\ runs < MaxRuns
    /\ button => pc = "done"
    /\ runs' = runs + 1
    /\ pressed' = button
    /\ pc' = "config"
    /\ user_interactions' = NoFrame
    /\ articles_metadata' = NoFrame
    /\ user_ids' = <<>>
    /\ articles_metadata_dict' = EmptyDict
    /\ selected_user_id' = Unbound
    /\ response' = NoResponse
    /\ recommendations' = Unbound
    /\ requests_sent' = <<>>
    /\ calls' = 0
    /\ reported' = <<>>
    /\ outcome' = NoOutcome
    /\ UNCHANGED <<env, cache, fetched, fetchCount>>

\* One call of the memoized load_data_from_blob (line 16): a hit returns the
\* stored value without running the body; a miss runs the body on the blob
\* content it meets and stores what the body returned.
CachedCall(params, records) ==
    IF CacheHit(cache, params)
        THEN UNCHANGED <<cache, fetched, fetchCount>>
        ELSE \E blob \in Blobs(records) :
                /\ cache' = (params :> load_data_from_blob(blob, params[4], params[5]).ret)
                                @@ cache
                /\ fetched' = (params :> blob) @@ fetched
                /\ fetchCount' = [fetchCount EXCEPT ![params] = @ + 1]

LoadError(params) == Message("error", "error while loading " \o params[3], 0)

\* lines 83-86
LoadInteractions ==
    /\ pc = "config"
    /\ Truthy(env.conn)
    /\ CachedCall(InteractionsParams, InteractionRecords)
    /\ user_interactions' = DataFrame(cache'[InteractionsParams])
    /\ reported' = IF cache'[InteractionsParams] = PyNone
                      THEN Append(reported, LoadError(InteractionsParams))
                      ELSE reported
    /\ pc' = "load_articles"
    /\ UNCHANGED <<env, runs, pressed, articles_metadata, user_ids,
                   articles_metadata_dict, selected_user_id, response,
                   recommendations, requests_sent, calls, outcome>>

\* lines 88-90
LoadArticles ==
    /\ pc = "load_articles"
    /\ CachedCall(ArticlesParams, ArticleRecords)
    /\ articles_metadata' = DataFrame(cache'[ArticlesParams])
    /\ reported' = IF cache'[ArticlesParams] = PyNone
                      THEN Append(reported, LoadError(ArticlesParams))
                      ELSE reported
    /\ pc' = "build_user_ids"
    /\ UNCHANGED <<env, runs, pressed, user_interactions, user_ids,
                   articles_metadata_dict, selected_user_id, response,
                   recommendations, requests_sent, calls, outcome>>

\* lines 92-95: the frame is never None; indexing a frame without the column
\* raises KeyError, which nothing catches.
BuildUserIds ==
    /\ pc = "build_user_ids"
    /\ IF HasColumn(user_interactions, "user_id")
          THEN /\ user_ids' \in SortedSet(Column(user_interactions, "user_id"))
               /\ pc' = "build_index"
               /\ UNCHANGED reported
          ELSE /\ pc' = "crashed"
               /\ reported' = Append(reported, Message("exception", "KeyError: 'user_id'", 0))
               /\ UNCHANGED user_ids
    /\ UNCHANGED <<env, cache, fetched, fetchCount, runs, pressed, user_interactions,
                   articles_metadata, articles_metadata_dict, selected_user_id,
                   response, recommendations, requests_sent, calls, outcome>>

\* lines 97-107
BuildIndex ==
    /\ pc = "build_index"
    /\ IF Len(articles_metadata.rows) > 0 /\ ~HasColumn(articles_metadata, "article_id")
          THEN /\ pc' = "crashed"
               /\ reported' = Append(reported, Message("exception", "KeyError: 'article_id'", 0))
               /\ UNCHANGED <<articles_metadata_dict, user_interactions, articles_metadata>>
          ELSE /\ articles_metadata_dict' = IndexOf(articles_metadata.rows)
               /\ user_interactions' = NoFrame
               /\ articles_metadata' = NoFrame
               /\ pc' = "check_users"
               /\ UNCHANGED reported
    /\ UNCHANGED <<env, cache, fetched, fetchCount, runs, pressed, user_ids,
                   selected_user_id, response, recommendations, requests_sent,
                   calls, outcome>>

\* lines 108-111
NoConnectionString ==
    /\ pc = "config"
    /\ ~Truthy(env.conn)
    /\ reported' = Append(reported,
                      Message("error", "AZURE_STORAGE_CONNECTION_STRING not set", 0))
    /\ user_ids' = <<>>
    /\ articles_metadata_dict' = EmptyDict
    /\ pc' = "check_users"
    /\ UNCHANGED <<env, cache, fetched, fetchCount, runs, pressed, user_interactions,
                   articles_metadata, selected_user_id, response, recommendations,
                   requests_sent, calls, outcome>>

\* lines 113-118
CheckUsers ==
    /\ pc = "check_users"
    /\ IF Len(user_ids) = 0
          THEN /\ reported' = Append(reported, Message("warning", "Cannot proceed", 0))
               /\ pc' = "stopped"
          ELSE /\ reported' = IF DOMAIN articles_metadata_dict = {}
                                 THEN Append(reported,
                                        Message("warning", "No article metadata found", 0))
                                 ELSE reported
               /\ pc' = "select"
    /\ UNCHANGED <<env, cache, fetched, fetchCount, runs, pressed, user_interactions,
                   articles_metadata, user_ids, articles_metadata_dict,
                   selected_user_id, response, recommendations, requests_sent,
                   calls, outcome>>

\* line 122: the select box holds one of the options
SelectUser ==
    /\ pc = "select"
    /\ \E i \in 1..Len(user_ids) : selected_user_id' = user_ids[i]
    /\ pc' = "button"
    /\ UNCHANGED <<env, cache, fetched, fetchCount, runs, pressed, user_interactions,
                   articles_metadata, user_ids, articles_metadata_dict, response,
                   recommendations, requests_sent, calls, reported, outcome>>

\* lines 129-152 on the value get_recommendations returned
Render(recs, index) ==
    IF Truthy(recs)
        THEN IF recs[1] = "list" /\ Truthy(recs)
                THEN [kind |-> "cards", cards |-> Cards(recs[2], index)]
                ELSE [kind |-> "No recommendations returned", cards |-> <<>>]
        ELSE [kind |-> "Failed to retrieve recommendations", cards |-> <<>>]

\* lines 124-154
ButtonHandler ==
    /\ pc = "button"
    /\ IF ~pressed
          THEN /\ outcome' = [kind |-> "not pressed", cards |-> <<>>]
               /\ UNCHANGED <<response, recommendations, requests_sent, calls, reported>>
          ELSE IF Truthy(selected_user_id)
          THEN \E resp \in Responses :
                 LET r == get_recommendations(selected_user_id, 5, env.key, resp)
                 IN  /\ response' = resp
                     /\ calls' = calls + 1
                     /\ requests_sent' = Append(requests_sent, r.request)
                     /\ recommendations' = r.ret
                     /\ outcome' = Render(r.ret, articles_metadata_dict)
                     /\ reported' = reported \o r.msg
          ELSE /\ outcome' = [kind |-> "Please select a User ID", cards |-> <<>>]
               /\ UNCHANGED <<response, recommendations, requests_sent, calls, reported>>
    /\ pc' = "done"
    /\ UNCHANGED <<env, cache, fetched, fetchCount, runs, pressed, user_interactions,
                   articles_metadata, user_ids, articles_metadata_dict, selected_user_id>>

Next ==
    \/ \E button \in BOOLEAN : StartRun(button)
    \/ LoadInteractions
    \/ LoadArticles
    \/ BuildUserIds
    \/ BuildIndex
    \/ NoConnectionString
    \/ CheckUsers
    \/ SelectUser
    \/ ButtonHandler

Spec == Init /\ [][Next]_vars

-----------------------------------------------------------------------------
(* Properties *)

RunEnded == pc \in {"done", "stopped", "crashed"}

\* the records of the lines that parse, in their order
ValidRecords(lines) ==
    LET good == SelectSeq(lines, LAMBDA l : l # BadLine)
    IN  [i \in 1..Len(good) |-> good[i][2]]

BadLineCount(lines) == Cardinality({i \in 1..Len(lines) : lines[i] = BadLine})

\* C1: whenever a newline-delimited blob with exactly one malformed line has
\* been loaded, the loader's result is the list of the records of the other
\* lines, in their original order.
C1_MalformedLineSkipped ==
    \A p \in DOMAIN cache :
        (fetched[p][1] = "lines" /\ BadLineCount(fetched[p][2]) = 1)
            => cache[p] = PyList(ValidRecords(fetched[p][2]))

\* C2: whenever the download met a source-level failure (blob not found, bad
\* credential, other I/O error), the loader returned the empty list, not a
\* value that is no sequence.
C2_SourceFailureReturnsEmptyList ==
    \A p \in DOMAIN cache :
        fetched[p] \in SourceFailures => cache[p] = PyList(<<>>)

\* the causes C3 names for an empty User Directory
EmptyDirectoryCause ==
    \/ ~Truthy(env.conn)
    \/ /\ InteractionsParams \in DOMAIN cache
       /\ cache[InteractionsParams] \in {PyNone, PyList(<<>>)}

\* C3: a run in which the interactions source is empty, its load failed or the
\* storage connection string is absent ends at the "Cannot proceed" stop,
\* without an uncaught error and without any call of the scoring endpoint.
C3_EmptyDirectoryHaltsAtCannotProceed ==
    (RunEnded /\ EmptyDirectoryCause)
        => /\ pc = "stopped"
           /\ reported[Len(reported)].text = "Cannot proceed"
           /\ calls = 0
           /\ requests_sent = <<>>

IndexBuilt ==
    /\ pc \in {"check_users", "select", "button", "done", "stopped"}
    /\ Truthy(env.conn)

\* C4: once the Metadata Index is built from a loaded list of article records,
\* its keys are exactly str(article_id) of the records that have an article_id,
\* and each key holds the fields of the last such record.
C4_IndexKeysAreCanonicalIds ==
    (IndexBuilt /\ cache[ArticlesParams][1] = "list")
        => LET recs  == cache[ArticlesParams][2]
               has   == {i \in 1..Len(recs) : "article_id" \in DOMAIN recs[i]}
               key(i) == Str(recs[i]["article_id"])
           IN  /\ DOMAIN articles_metadata_dict = {key(i) : i \in has}
               /\ \A i \in has :
                    (\A j \in has : j > i => key(j) # key(i))
                        => \A f \in DOMAIN recs[i] :
                              articles_metadata_dict[key(i)][f] = recs[i][f]

DirectoryBuilt ==
    /\ pc \in {"build_index", "check_users", "select", "button", "done", "stopped"}
    /\ Truthy(env.conn)

\* equality of two identifiers as Python compares them (3 == 3.0)
SameId(a, b) ==
    /\ a[1] \in {"int", "float"}
    /\ b[1] \in {"int", "float"}
    /\ a[2] = b[2]

\* C5: once the User Directory is built from a loaded list of interaction
\* records, it is strictly ascending and its elements are exactly the user_id
\* values of the records that have one.
C5_UserDirectorySortedDistinctExact ==
    (DirectoryBuilt /\ cache[InteractionsParams][1] = "list")
        => LET recs == cache[InteractionsParams][2]
               has  == {i \in 1..Len(recs) : "user_id" \in DOMAIN recs[i]}
           IN  /\ \A i \in 1..Len(user_ids) : \A j \in 1..Len(user_ids) :
                    i < j => Less(user_ids[i], user_ids[j])
               /\ \A k \in 1..Len(user_ids) :
                    \E i \in has : SameId(user_ids[k], recs[i]["user_id"])
               /\ \A i \in has :
                    \E k \in 1..Len(user_ids) : SameId(user_ids[k], recs[i]["user_id"])

AnsweredWithList ==
    /\ pc = "done"
    /\ calls = 1
    /\ response.exc = {}
    /\ response.status >= 200
    /\ response.status < 300
    /\ response.body[1] = "json"
    /\ response.body[2][1] = "list"

\* C6: when the endpoint answers with a 2xx status and a JSON list, the value
\* get_recommendations returns is that list: same identifiers, same order,
\* same length, whatever its length.
C6_SuccessReturnsListVerbatim ==
    AnsweredWithList => recommendations = response.body[2]

\* C6 witness: a two-element answer (fewer than the 5 asked for) whose order is
\* not ascending came back as it was sent.
C6_Witness ==
    /\ AnsweredWithList
    /\ response.body[2] = PyList(<<PyInt(7), PyStr("1")>>)
    /\ recommendations = PyList(<<PyInt(7), PyStr("1")>>)

ClaimedFailureKinds == {"connection", "timeout", "http", "decode"}

\* C7: the value get_recommendations returns for a failure differs from the
\* value it returns for every failure of another kind, and for an HTTP error
\* it differs from the one returned for another status code.
C7_FailureKindsDistinguishable ==
    (pc = "done" /\ calls = 1 /\ FailureKind(response) \in ClaimedFailureKinds)
        => \A r \in Responses :
              (/\ FailureKind(r) \in ClaimedFailureKinds
               /\ \/ FailureKind(r) # FailureKind(response)
                  \/ FailureKind(r) = "http" /\ r.status # response.status)
                => get_recommendations(selected_user_id, 5, env.key, r).ret
                      # recommendations

\* C8: with no AZURE_FUNCTION_KEY configured no request is posted, and a posted
\* request has the credential header only when a key is configured.
C8_NoCredentialNoRequest ==
    /\ env.key = PyNone => requests_sent = <<>>
    /\ \A i \in 1..Len(requests_sent) :
          "x-functions-key" \in DOMAIN requests_sent[i].headers => env.key # PyNone

\* C9: every parameter tuple is downloaded at most once in the process; it has
\* a memoized value exactly when it was downloaded, that value is what the
\* loader made of the blob downloaded for this very tuple, and a call, first
\* or repeated, hands the memoized value to the script.
C9_FetchedAtMostOncePerParameters ==
    /\ \A p \in DOMAIN fetchCount :
          /\ fetchCount[p] <= 1
          /\ fetchCount[p] = 1 <=> p \in DOMAIN cache
          /\ p \in DOMAIN cache
                => cache[p] = load_data_from_blob(fetched[p], p[4], p[5]).ret
    /\ pc = "load_articles" => user_interactions = DataFrame(cache[InteractionsParams])
    /\ pc = "build_user_ids" => articles_metadata = DataFrame(cache[ArticlesParams])

\* C9 witness: the second run has called the loader again with both parameter
\* tuples, each was downloaded once, and the two hold different results.
C9_Witness ==
    /\ runs = 2
    /\ pc = "build_user_ids"
    /\ fetchCount[InteractionsParams] = 1
    /\ fetchCount[ArticlesParams] = 1
    /\ cache[InteractionsParams] # cache[ArticlesParams]
    /\ cache[InteractionsParams][1] = "list"

\* C10: a run in which the button was pressed made exactly one
\* get_recommendations call, and its outcome follows the returned value:
\* cards, one per identifier in order, exactly for a non-empty list; the
\* "Failed" error for None and for an empty list; "No recommendations
\* returned" only for a truthy value that is no list.
C10_PressIssuesOneCall ==
    (pc = "done" /\ pressed)
        => /\ calls = 1
           /\ outcome.kind = "cards"
                <=> (recommendations[1] = "list" /\ Len(recommendations[2]) > 0)
           /\ outcome.kind = "cards"
                => /\ Len(outcome.cards) = Len(recommendations[2])
                   /\ \A i \in 1..Len(outcome.cards) :
                        outcome.cards[i].article_id = recommendations[2][i]
           /\ recommendations \in {PyNone, PyList(<<>>)}
                => outcome.kind = "Failed to retrieve recommendations"
           /\ outcome.kind = "No recommendations returned"
                => (Truthy(recommendations) /\ recommendations[1] # "list")

=============================================================================
